---------------------------- MODULE Spec2Model ----------------------------
(***************************************************************************)
(* Word -> Mandala (app.js).                                               *)
(*                                                                         *)
(* Two specifications over one set of variables:                           *)
(*   Spec     the body of drawMandala executed block by block, with the    *)
(*            mulberry32 generator computed bit-exactly;                   *)
(*   UISpec   the event handlers registered by main() (input, resize,      *)
(*            submit, download, debounce timer), each handler atomic as    *)
(*            JavaScript handlers run to completion.                       *)
(*                                                                         *)
(* Numbers.  TLC integers are 32-bit signed, so a JavaScript uint32 is     *)
(* held as its two 16-bit halves <<hi, lo>>, and the generator's closure   *)
(* variable a, which the code never wraps, as <<ov, hi, lo>> standing for  *)
(* ov*2^32 + hi*2^16 + lo.  A value returned by rng() is u/2^32 for a      *)
(* uint32 u and is held as that u.  Strings are sequences of UTF-16 code   *)
(* units.  Lengths coming from the DOM (rect.width, devicePixelRatio) are  *)
(* held in half units so that Math.floor has something to remove.          *)
(***************************************************************************)
EXTENDS Integers, Sequences, FiniteSets, TLC

W8 == 2 ^ 8

W16 == 2 ^ 16

---------------------------------------------------------------------------
(* 32-bit integer arithmetic on 16-bit halves                              *)

RECURSIVE BitOp(_, _, _, _)
BitOp(op, x, y, n) ==
  IF n = 0 THEN 0
  ELSE (IF op = "xor" THEN (x + y) % 2
        ELSE IF (x % 2) + (y % 2) > 0 THEN 1 ELSE 0)
       + 2 * BitOp(op, x \div 2, y \div 2, n - 1)

\* tables of the byte operations, entry (x * 256) + y + 1 for bytes x, y
XorTab == [i \in 1..W16 |-> BitOp("xor", (i - 1) \div W8, (i - 1) % W8, 8)] \o <<>>

OrTab == [i \in 1..W16 |-> BitOp("or", (i - 1) \div W8, (i - 1) % W8, 8)] \o <<>>

\* x ^ y and x | y on 16-bit operands
Xor16(x, y) == (XorTab[((x \div W8) * W8) + (y \div W8) + 1] * W8)
               + XorTab[((x % W8) * W8) + (y % W8) + 1]

Or16(x, y) == (OrTab[((x \div W8) * W8) + (y \div W8) + 1] * W8)
              + OrTab[((x % W8) * W8) + (y % W8) + 1]

\* low and high 16 bits of the product of two 16-bit operands
MulLo(x, y) == ((((x * (y \div W8)) % W8) * W8) + (x * (y % W8))) % W16

MulHi(x, y) ==
  ((x \div W8) * (y \div W8))
  + ((((((x \div W8) * (y % W8)) + ((x % W8) * (y \div W8))) * W8)
      + ((x % W8) * (y % W8))) \div W16)

\* Math.imul on halves: high half and low half of the 32-bit product
ImulHi(ah, al, bh, bl) == (MulHi(al, bl) + MulLo(ah, bl) + MulLo(al, bh)) % W16

ImulLo(al, bl) == MulLo(al, bl)

\* (x >>> k) for 0 < k < 16, high and low half
ShrHi(h, k) == h \div (2 ^ k)

ShrLo(h, l, k) == ((h % (2 ^ k)) * (2 ^ (16 - k))) + (l \div (2 ^ k))

---------------------------------------------------------------------------
(* xmur3 and computeSeed                                                   *)

XmurInit == <<27145, 58983>>      \* 1779033703 = 0x6A09E667

XmurMulA == <<52382, 11601>>      \* 3432918353 = 0xCC9E2D51

XmurMulB == <<34283, 51819>>      \* 2246822507 = 0x85EBCA6B

XmurMulC == <<49842, 44597>>      \* 3266489909 = 0xC2B2AE35

\* one iteration of the loop of xmur3: h = imul(h ^ c, A); h = h<<13 | h>>>19
XmurAbsorb(h, c) ==
  LET xh == h[1]
      xl == Xor16(h[2], c)
      mh == ImulHi(xh, xl, XmurMulA[1], XmurMulA[2])
      ml == ImulLo(xl, XmurMulA[2])
  IN  <<((mh % 8) * 8192) + (ml \div 8), ((ml % 8) * 8192) + (mh \div 8)>>

\* a function on 1..n as an evaluated tuple (TLC evaluates a function
\* constructor anew at every application)
Tuple(f) == f \o <<>>

\* F applied to the value of e, evaluated once
Ap(F(_), e) == CHOOSE y \in {F(x) : x \in {e}} : TRUE

RECURSIVE XmurFold(_, _, _)
XmurFold(h, str, i) ==
  IF i > Len(str) THEN h
  ELSE Ap(LAMBDA h2 : XmurFold(h2, str, i + 1), XmurAbsorb(h, str[i]))

\* the state h of the closure xmur3(str) returns
xmur3(str) ==
  Ap(LAMBDA h0 : XmurFold(h0, str, 1), <<XmurInit[1], Xor16(XmurInit[2], Len(str))>>)

\* Math.imul(x, m) on uint32 values held as halves
Imul32(x, m) == <<ImulHi(x[1], x[2], m[1], m[2]), ImulLo(x[2], m[2])>>

\* x ^ (x >>> 16) and x ^ (x >>> 13)
XorShr16(x) == <<x[1], Xor16(x[2], x[1])>>

XorShr13(x) == <<Xor16(x[1], ShrHi(x[1], 13)), Xor16(x[2], ShrLo(x[1], x[2], 13))>>

\* one call of the closure: the new h, which is also the value returned
XmurNext(h) ==
  Ap(XorShr16,
     Ap(LAMBDA q : Imul32(XorShr13(q), XmurMulC),
        Imul32(XorShr16(h), XmurMulB)))

toLowerCase(str) ==
  [i \in 1..Len(str) |-> IF str[i] >= 65 /\ str[i] <= 90 THEN str[i] + 32 ELSE str[i]]

\* seedFn() ^ seedFn() ^ seedFn() on the closure state h
SeedOf(h) ==
  Ap(LAMBDA s1 :
       Ap(LAMBDA s2 :
            Ap(LAMBDA s3 : <<Xor16(Xor16(s1[1], s2[1]), s3[1]),
                             Xor16(Xor16(s1[2], s2[2]), s3[2])>>,
               XmurNext(s2)),
          XmurNext(s1)),
     XmurNext(h))

computeSeed(w) ==
  Ap(SeedOf, Ap(xmur3, Tuple(toLowerCase(w))))

---------------------------------------------------------------------------
(* sanitizeWord                                                            *)

MaxWordLen == 32

WhiteSpace == {9, 10, 13, 32}

RECURSIVE TrimStart(_)
TrimStart(s) == IF s # <<>> /\ Head(s) \in WhiteSpace THEN TrimStart(Tail(s)) ELSE s

RECURSIVE TrimEnd(_)
TrimEnd(s) ==
  IF s # <<>> /\ s[Len(s)] \in WhiteSpace THEN TrimEnd(SubSeq(s, 1, Len(s) - 1)) ELSE s

trim(s) == TrimEnd(TrimStart(s))

\* s.split(/\s+/)[0]: the characters before the first whitespace run
RECURSIVE FirstToken(_)
FirstToken(s) ==
  IF s = <<>> \/ Head(s) \in WhiteSpace THEN <<>>
  ELSE <<Head(s)>> \o FirstToken(Tail(s))

sanitizeWord(raw) ==
  LET w == FirstToken(trim(raw))
  IN  SubSeq(w, 1, IF Len(w) < MaxWordLen THEN Len(w) ELSE MaxWordLen)

---------------------------------------------------------------------------
(* mulberry32                                                              *)

MulberryInc == <<27947, 31221>>   \* 0x6d2b79f5

\* mulberry32(a): the closure variable starts as the uint32 seed
mulberry32(s) == <<0, s[1], s[2]>>

\* the rest of the closure body on t = ToInt32(a): the uint32 returned / 2^32
MulberryOut(h, l) ==
  LET xh == Xor16(h, ShrHi(h, 15))
      xl == Xor16(l, ShrLo(h, l, 15))
      yl == Or16(l, 1)
      t1l == ImulLo(xl, yl)
      t1h == ImulHi(xh, xl, h, yl)
      uh == Xor16(t1h, ShrHi(t1h, 7))
      ul == Xor16(t1l, ShrLo(t1h, t1l, 7))
      vl == Or16(t1l, 61)
      ml == ImulLo(ul, vl)
      mh == ImulHi(uh, ul, t1h, vl)
      sl == t1l + ml
      sh == (t1h + mh + (sl \div W16)) % W16
      t2h == Xor16(t1h, sh)
      t2l == Xor16(t1l, sl % W16)
  IN  <<Xor16(t2h, ShrHi(t2h, 14)), Xor16(t2l, ShrLo(t2h, t2l, 14))>>

\* a += 0x6d2b79f5, k times, on a JavaScript number: no wrap, the carry
\* goes to ov
Advance(s, k) ==
  LET l == s[3] + (k * MulberryInc[2])
      h == s[2] + (k * MulberryInc[1]) + (l \div W16)
  IN  <<s[1] + (h \div W16), h % W16, l % W16>>

\* the value the call of rng() returns that leaves the closure variable at s
rngValue(s) == MulberryOut(s[2], s[3])

\* n consecutive calls of rng() from closure state s:
\* <<state after the calls, sequence of the n values returned>>
rngCalls(s, n) == <<Advance(s, n), Tuple([i \in 1..n |-> rngValue(Advance(s, i))])>>

---------------------------------------------------------------------------
(* small helpers of app.js                                                 *)

clamp(n, min, max) ==
  LET m == IF max < n THEN max ELSE n
  IN  IF min > m THEN min ELSE m

\* Math.floor(u/2^32 * k) for a draw u and an integer k < 2^15
FloorMul(u, k) == ((k * u[1]) + ((k * u[2]) \div W16)) \div W16

\* pick(rng, arr): index (from 0) into an array of length len
pick(u, len) == FloorMul(u, len)


\* Math.round((base + u/2^32 * k) % 360): the hue hsl() prints
RoundHue(base, u, k) ==
  LET frac == ((k * u[1]) + ((k * u[2]) \div W16)) % W16
  IN  ((base + FloorMul(u, k)) % 360) + (IF frac >= 32768 THEN 1 ELSE 0)

\* setCanvasSize after fitCanvasToContainer, from rect.width and
\* window.devicePixelRatio given in half units
fitCanvasToContainer(rectWidth2, dpr2) ==
  LET size == clamp(rectWidth2 \div 2, 320, 980)
      ratio == IF dpr2 = 0 THEN 1 ELSE dpr2 \div 2
      dpr == IF ratio < 1 THEN 1 ELSE ratio
  IN  [css |-> size, width |-> size * dpr, height |-> size * dpr]

---------------------------------------------------------------------------
(* inputs                                                                  *)

Harmony == <<104, 97, 114, 109, 111, 110, 121>>

Lotus == <<108, 111, 116, 117, 115>>

\* calls of drawMandala the block-level specification makes: a word on two
\* surface sizes and a second word.  main() always passes signature: true;
\* the call without it exercises the option drawMandala accepts.
Calls ==
  { [word |-> Harmony, rectWidth2 |-> 801, dpr2 |-> 2, signature |-> TRUE],
    [word |-> Harmony, rectWidth2 |-> 1201, dpr2 |-> 4, signature |-> FALSE],
    [word |-> Lotus, rectWidth2 |-> 801, dpr2 |-> 2, signature |-> TRUE] }

GrainDots == 2400

Kinds == <<"petal", "band", "rays", "dots", "triangles">>

InkCount == 6

---------------------------------------------------------------------------
VARIABLES
  \* the page
  phase,          \* "loading" until main() has made its first render
  inputValue,     \* input.value
  rectWidth2,     \* wrap.getBoundingClientRect().width, in half pixels
  dpr2,           \* window.devicePixelRatio, in halves
  timers,         \* pending timeouts of the window: set of [id, cb]
  resizeTimer,    \* the variable resizeTimer of main(); 0 is null
  nextTimerId,    \* the id the next setTimeout returns
  canvas,         \* [css, width, height] of the canvas element
  painted,        \* arguments of the drawMandala call that painted the canvas
  seedLabel,      \* seed shown in seedLabel.textContent; <<>> before any
  download,       \* [name, image] of the last download; <<>> before any
  called,         \* the handler that ran last called drawMandala
  \* one activation of drawMandala
  pc,             \* the block of drawMandala to run next; "idle" outside
  args,           \* [word, seed, signature] of the call
  a,              \* closure variable of mulberry32, <<ov, hi, lo>>
  palette,
  segments, layers, li, si, gi,
  hdr,            \* r1, stroke, fill, kind, lw of the current layer
  centerPetals, ci,
  \* observation of the running call
  key,            \* the element of Calls being executed
  block,          \* the block executed last
  draws,          \* number of rng() calls so far in this call
  lastDraws,      \* <<purpose, value>> of the rng() calls of the last block
  lastOps,        \* <<operation, arguments>> painted by the last block
  digest,         \* [hash, count] folded over every draw and operation
  layerLog,       \* per layer [kind, stroke, fill, start, counts]
  rendered        \* per call: <<>> or <<summary of its first completed run>>

pageVars == <<phase, inputValue, rectWidth2, dpr2, timers, resizeTimer,
              nextTimerId, painted, seedLabel, download, called>>

localVars == <<palette, segments, layers, li, si, gi, hdr, centerPetals, ci>>

obsVars == <<key, block, draws, lastDraws, lastOps, digest, layerLog, rendered>>

vars == <<pageVars, canvas, pc, args, a, localVars, obsVars>>

NoPalette == [baseHue |-> 0, ink |-> 0, ink2 |-> 0, ink3 |-> 0, ink4 |-> 0, gold |-> 0]

NoHdr == [r1 |-> <<0, 0>>, stroke |-> 0, fill |-> 0, kind |-> "petal", lw |-> <<0, 0>>]

\* main() up to, not including, its call of renderFromInput (line 374)
Init ==
  /\ phase = "loading"
  /\ inputValue = <<>>
  /\ rectWidth2 = 801
  /\ dpr2 = 2
  /\ timers = {}
  /\ resizeTimer = 0
  /\ nextTimerId = 1
  /\ canvas = [css |-> 300, width |-> 300, height |-> 150]
  /\ painted = <<>>
  /\ seedLabel = <<>>
  /\ download = <<>>
  /\ called = FALSE
  /\ pc = "idle"
  /\ args = [word |-> <<>>, seed |-> <<0, 0>>, signature |-> FALSE]
  /\ a = <<0, 0, 0>>
  /\ palette = NoPalette
  /\ segments = 0 /\ layers = 0 /\ li = 0 /\ si = 0 /\ gi = 0
  /\ hdr = NoHdr
  /\ centerPetals = 0 /\ ci = 0
  /\ key = CHOOSE c \in Calls : TRUE
  /\ block = "none"
  /\ draws = 0
  /\ lastDraws = <<>>
  /\ lastOps = <<>>
  /\ digest = [hash |-> 0, count |-> 0]
  /\ layerLog = <<>>
  /\ rendered = [c \in Calls |-> <<>>]

---------------------------------------------------------------------------
(* observation helpers                                                     *)

OpNames == <<"clearRect", "gradient", "fillRect", "translate", "rotate", "ring",
             "petal", "band", "ray", "dot", "triangle", "fill", "stroke",
             "centerDot", "fillText">>

OpId(name) == CHOOSE i \in 1..Len(OpNames) : OpNames[i] = name

Mix(h, x) == ((h * 31) + x) % 1000003

\* order-sensitive hash of h followed by the first n integers of xs
RECURSIVE FoldInts(_, _, _)
FoldInts(h, xs, n) == IF n = 0 THEN h ELSE Mix(FoldInts(h, xs, n - 1), xs[n])

\* what a block leaves behind: generator advanced by its draws, the draws
\* labelled by purpose, the operations it painted.  (Values are bound by \E
\* over a singleton set, here and in the actions, so that each is computed
\* once.)
Observe(name, r, tags, os) ==
  \E ds \in {Tuple([i \in 1..Len(tags) |-> <<tags[i], r[2][i]>>])} :
  \E ops \in {Tuple(os)} :
  \E dh \in {Tuple([i \in 1..Len(ds) |-> Mix(ds[i][2][1], ds[i][2][2])])} :
  \E oh \in {Tuple([i \in 1..Len(ops) |->
                FoldInts(OpId(ops[i][1]), ops[i][2], Len(ops[i][2]))])} :
  \E h1 \in {FoldInts(digest.hash, dh, Len(dh))} :
  \E h2 \in {FoldInts(h1, oh, Len(oh))} :
      /\ a' = r[1]
      /\ block' = name
      /\ draws' = draws + Len(tags)
      /\ lastDraws' = ds
      /\ lastOps' = ops
      /\ digest' = [hash |-> h2, count |-> digest.count + Len(ops)]

RECURSIVE SumSeq(_)
SumSeq(xs) == IF xs = <<>> THEN 0 ELSE Head(xs) + SumSeq(Tail(xs))

minDim == IF canvas.width < canvas.height THEN canvas.width ELSE canvas.height


---------------------------------------------------------------------------
(* drawMandala, block by block                                             *)

\* faulty variant of SegmentsOf: a wider multiplier and no clamp
SegmentsOfUnclamped(u) == 8 + FloorMul(u, 64)

SegmentsOf(u) == clamp(8 + FloorMul(u, 18), 8, 26)

\* faulty variant of LayersOf: one more layer on a surface of 1000 pixels
\* or more
LayersOfBySize(u) == clamp(7 + FloorMul(u, 7) + (canvas.width \div 1000), 7, 14)

LayersOf(u) == clamp(7 + FloorMul(u, 7), 7, 14)

\* faulty variant of RayCountOf: the count starts at 1 instead of 2
RayCountOfFromOne(u) == clamp(1 + FloorMul(u, 6), 1, 7)

RayCountOf(u) == clamp(2 + FloorMul(u, 6), 2, 7)

DotCountOf(u) == clamp(2 + FloorMul(u, 5), 2, 6)

CenterPetalsOf(u) == clamp(10 + FloorMul(u, 18), 10, 30)

\* n - 1 || 1
Divisor(n) == IF n - 1 = 0 THEN 1 ELSE n - 1

\* number of rng() calls of one segment of each kind, given its count draw
PetalDraws == <<"width", "curve", "fillAlpha">>

BandDraws == <<"span", "fillAlpha">>

TriangleDraws == <<"width", "tip", "base", "fillAlpha">>

RayDraws(n) == Tuple([i \in 1..(3 * n) |-> <<"rr0", "rr1", "alpha">>[((i - 1) % 3) + 1]])

DotDraws(n) == Tuple([i \in 1..(4 * n) |-> <<"size", "alpha", "fillPick", "glowPick">>[((i - 1) % 4) + 1]])

CenterPetalDraws == <<"r1", "width", "curve">>

\* the test of a for loop that has just finished iteration i of n
AfterLayer(next) == IF next < layers THEN "layer" ELSE "rosette"

\* a caller doing what renderFromInput does before the call (lines 331-337)
CallDrawMandala(c) ==
  /\ pc = "idle"
  /\ args' = [word |-> c.word, seed |-> computeSeed(c.word), signature |-> c.signature]
  /\ canvas' = fitCanvasToContainer(c.rectWidth2, c.dpr2)
  /\ key' = c
  /\ block' = "call"
  /\ pc' = "enter"
  /\ UNCHANGED <<pageVars, a, localVars, draws, lastDraws, lastOps, digest,
                 layerLog, rendered>>

\* faulty variant of drawMandala: the generator is created once and shared
\* by all calls
drawMandalaSharedGenerator ==
  /\ pc = "enter"
  /\ a' = a
  /\ block' = "enter"
  /\ draws' = 0
  /\ lastDraws' = <<>>
  /\ lastOps' = <<>>
  /\ digest' = [hash |-> 0, count |-> 0]
  /\ layerLog' = <<>>
  /\ pc' = "palette"
  /\ UNCHANGED <<pageVars, canvas, args, localVars, key, rendered>>

\* lines 161-165: const rng = mulberry32(seed)
drawMandala ==
  /\ pc = "enter"
  /\ a' = mulberry32(args.seed)
  /\ block' = "enter"
  /\ draws' = 0
  /\ lastDraws' = <<>>
  /\ lastOps' = <<>>
  /\ digest' = [hash |-> 0, count |-> 0]
  /\ layerLog' = <<>>
  /\ pc' = "palette"
  /\ UNCHANGED <<pageVars, canvas, args, localVars, key, rendered>>

makePalette ==
  /\ pc = "palette"
  /\ \E r \in {rngCalls(a, 4)} :
     \E baseHue \in {FloorMul(r[2][1], 360)} :
         /\ palette' = [baseHue |-> baseHue,
                        ink |-> baseHue,
                        ink2 |-> RoundHue(baseHue + 35, r[2][2], 40),
                        ink3 |-> RoundHue(baseHue + 180, r[2][3], 50),
                        ink4 |-> RoundHue(baseHue + 250, r[2][4], 50),
                        gold |-> (baseHue + 55) % 360]
         /\ Observe("makePalette", r, <<"baseHue", "hue2", "hue3", "hue4">>, <<>>)
  /\ pc' = "background"
  /\ UNCHANGED <<pageVars, canvas, args, segments, layers, li, si, gi, hdr,
                 centerPetals, ci, key, layerLog, rendered>>

\* drawBackground up to the grain loop
drawBackground ==
  /\ pc = "background"
  /\ Observe("background", <<a, <<>>>>, <<>>,
             << <<"clearRect", <<canvas.width, canvas.height>>>>,
                <<"gradient", <<canvas.width, canvas.height,
                                palette.baseHue + 10, palette.baseHue + 190>>>>,
                <<"fillRect", <<0, 0, canvas.width, canvas.height>>>> >>)
  /\ gi' = 0
  /\ pc' = IF 0 < GrainDots THEN "grain" ELSE "sizing"
  /\ UNCHANGED <<pageVars, canvas, args, palette, segments, layers, li, si, hdr,
                 centerPetals, ci, key, layerLog, rendered>>

\* faulty variant of GrainDot: a grain dot without its alpha draw
GrainDotNoAlpha ==
  /\ pc = "grain"
  /\ \E r \in {rngCalls(a, 2)} :
     \E x \in {r[2][1]} :
     \E y \in {r[2][2]} :
         Observe("grain", r, <<"x", "y">>,
                 << <<"fillRect", <<x[1], x[2], canvas.width, y[1], y[2],
                                    canvas.height>>>> >>)
  /\ gi' = gi + 1
  /\ pc' = IF gi + 1 < GrainDots THEN "grain" ELSE "sizing"
  /\ UNCHANGED <<pageVars, canvas, args, palette, segments, layers, li, si, hdr,
                 centerPetals, ci, key, layerLog, rendered>>

\* one iteration of the grain loop
GrainDot ==
  /\ pc = "grain"
  /\ \E r \in {rngCalls(a, 3)} :
     \E x \in {r[2][1]} :
     \E y \in {r[2][2]} :
     \E al \in {r[2][3]} :
         Observe("grain", r, <<"x", "y", "alpha">>,
                 << <<"fillRect", <<x[1], x[2], canvas.width, y[1], y[2],
                                    canvas.height, al[1], al[2]>>>> >>)
  /\ gi' = gi + 1
  /\ pc' = IF gi + 1 < GrainDots THEN "grain" ELSE "sizing"
  /\ UNCHANGED <<pageVars, canvas, args, palette, segments, layers, li, si, hdr,
                 centerPetals, ci, key, layerLog, rendered>>

\* lines 170-191: rotation, segments, layers, guide ring
Sizing ==
  /\ pc = "sizing"
  /\ \E r \in {rngCalls(a, 3)} :
     \E rot \in {r[2][1]} :
     \E ly \in {LayersOf(r[2][3])} :
         /\ segments' = SegmentsOf(r[2][2])
         /\ layers' = ly
         /\ Observe("sizing", r, <<"rotation", "segments", "layers">>,
                    << <<"translate", <<canvas.width, canvas.height>>>>,
                       <<"rotate", <<rot[1], rot[2]>>>>,
                       <<"ring", <<minDim, palette.baseHue>>>> >>)
         /\ pc' = IF 0 < ly THEN "layer" ELSE "rosette"
  /\ li' = 0
  /\ UNCHANGED <<pageVars, canvas, args, palette, si, gi, hdr, centerPetals, ci,
                 key, layerLog, rendered>>

\* lines 194-201: the draws of a layer made before its segment loop
LayerHeader ==
  /\ pc = "layer"
  /\ \E r \in {rngCalls(a, 5)} :
     \E h \in {[r1 |-> r[2][1],
               stroke |-> pick(r[2][2], InkCount),
               fill |-> pick(r[2][3], InkCount),
               kind |-> Kinds[pick(r[2][4], Len(Kinds)) + 1],
               lw |-> r[2][5]]} :
         /\ hdr' = h
         /\ layerLog' = Append(layerLog, [kind |-> h.kind, stroke |-> h.stroke,
                                          fill |-> h.fill, start |-> draws,
                                          counts |-> <<>>])
         /\ Observe("layerHeader", r, <<"r1", "stroke", "fill", "kind", "lineWidth">>, <<>>)
  /\ si' = 0
  /\ li' = IF 0 < segments THEN li ELSE li + 1
  /\ pc' = IF 0 < segments THEN "segment" ELSE AfterLayer(li + 1)
  /\ UNCHANGED <<pageVars, canvas, args, palette, segments, layers, gi,
                 centerPetals, ci, key, rendered>>

\* end of one iteration of the segment loop; cnt is <<>> or <<count drawn>>
SegmentDone(cnt) ==
  /\ si' = si + 1
  /\ li' = IF si + 1 < segments THEN li ELSE li + 1
  /\ pc' = IF si + 1 < segments THEN "segment" ELSE AfterLayer(li + 1)
  /\ layerLog' = [layerLog EXCEPT ![Len(layerLog)].counts = @ \o cnt]
  /\ UNCHANGED <<pageVars, canvas, args, palette, segments, layers, gi, hdr,
                 centerPetals, ci, key, rendered>>

\* arguments shared by the operations of a segment
SegArgs == <<li, si, segments, layers, minDim, hdr.r1[1], hdr.r1[2]>>

StrokeOp == <<"stroke", <<hdr.stroke, hdr.lw[1], hdr.lw[2], minDim>>>>

SegPetal ==
  /\ pc = "segment" /\ hdr.kind = "petal"
  /\ \E r \in {rngCalls(a, 3)} :
     \E v \in {r[2]} :
         Observe("petal", r, PetalDraws,
                 << <<"rotate", <<si, segments>>>>,
                    <<"petal", SegArgs \o <<v[1][1], v[1][2], v[2][1], v[2][2]>>>>,
                    <<"fill", <<palette.baseHue + (li * 12) + (si * 2),
                                v[3][1], v[3][2], hdr.fill>>>>,
                    StrokeOp >>)
  /\ SegmentDone(<<>>)

\* faulty variant of SegBand: the fill has a fixed alpha
SegBandFixedAlpha ==
  /\ pc = "segment" /\ hdr.kind = "band"
  /\ \E r \in {rngCalls(a, 1)} :
     \E v \in {r[2]} :
         Observe("band", r, <<"span">>,
                 << <<"rotate", <<si, segments>>>>,
                    <<"band", SegArgs \o <<v[1][1], v[1][2]>>>>,
                    <<"fill", <<palette.baseHue + 160 + (li * 7), hdr.fill>>>>,
                    StrokeOp >>)
  /\ SegmentDone(<<>>)

SegBand ==
  /\ pc = "segment" /\ hdr.kind = "band"
  /\ \E r \in {rngCalls(a, 2)} :
     \E v \in {r[2]} :
         Observe("band", r, BandDraws,
                 << <<"rotate", <<si, segments>>>>,
                    <<"band", SegArgs \o <<v[1][1], v[1][2]>>>>,
                    <<"fill", <<palette.baseHue + 160 + (li * 7),
                                v[2][1], v[2][2], hdr.fill>>>>,
                    StrokeOp >>)
  /\ SegmentDone(<<>>)

SegRays ==
  /\ pc = "segment" /\ hdr.kind = "rays"
  /\ \E r0 \in {rngCalls(a, 1)} :
     \E rayCount \in {RayCountOf(r0[2][1])} :
     \E r \in {rngCalls(a, 1 + (3 * rayCount))} :
     \E v \in {r[2]} :
         /\ Observe("rays", r, <<"rayCount">> \o RayDraws(rayCount),
                    << <<"rotate", <<si, segments>>>> >> \o
                    [ri \in 1..rayCount |->
                       <<"ray", SegArgs \o <<ri - 1, Divisor(rayCount),
                                 v[3 * ri - 1][1], v[3 * ri - 1][2],
                                 v[3 * ri][1], v[3 * ri][2],
                                 v[3 * ri + 1][1], v[3 * ri + 1][2],
                                 hdr.stroke, hdr.lw[1], hdr.lw[2]>>>>])
         /\ SegmentDone(<<rayCount>>)

SegDots ==
  /\ pc = "segment" /\ hdr.kind = "dots"
  /\ \E r0 \in {rngCalls(a, 1)} :
     \E dotCount \in {DotCountOf(r0[2][1])} :
     \E r \in {rngCalls(a, 1 + (4 * dotCount))} :
     \E v \in {r[2]} :
         /\ Observe("dots", r, <<"dotCount">> \o DotDraws(dotCount),
                    << <<"rotate", <<si, segments>>>> >> \o
                    [di \in 1..dotCount |->
                       <<"dot", SegArgs \o <<di - 1, Divisor(dotCount),
                                 v[4 * di - 2][1], v[4 * di - 2][2],
                                 v[4 * di - 1][1], v[4 * di - 1][2],
                                 pick(v[4 * di], InkCount),
                                 pick(v[4 * di + 1], InkCount),
                                 hdr.lw[1], hdr.lw[2]>>>>])
         /\ SegmentDone(<<dotCount>>)

SegTriangles ==
  /\ pc = "segment" /\ hdr.kind = "triangles"
  /\ \E r \in {rngCalls(a, 4)} :
     \E v \in {r[2]} :
         Observe("triangles", r, TriangleDraws,
                 << <<"rotate", <<si, segments>>>>,
                    <<"triangle", SegArgs \o <<v[1][1], v[1][2], v[2][1], v[2][2],
                                               v[3][1], v[3][2]>>>>,
                    <<"fill", <<palette.baseHue + 40 + (li * 11),
                                v[4][1], v[4][2], hdr.fill>>>>,
                    StrokeOp >>)
  /\ SegmentDone(<<>>)

\* lines 275-277
RosetteCount ==
  /\ pc = "rosette"
  /\ \E r \in {rngCalls(a, 1)} :
     \E n \in {CenterPetalsOf(r[2][1])} :
         /\ centerPetals' = n
         /\ Observe("rosette", r, <<"centerPetals">>, <<>>)
         /\ pc' = IF 0 < n THEN "centerPetal" ELSE "centerDot"
  /\ ci' = 0
  /\ UNCHANGED <<pageVars, canvas, args, palette, segments, layers, li, si, gi,
                 hdr, key, layerLog, rendered>>

\* lines 278-292: one petal of the rosette, drawPetal included
CenterPetal ==
  /\ pc = "centerPetal"
  /\ \E r \in {rngCalls(a, 3)} :
     \E v \in {r[2]} :
         Observe("centerPetal", r, CenterPetalDraws,
                 << <<"rotate", <<ci, centerPetals>>>>,
                    <<"petal", <<minDim, v[1][1], v[1][2], v[2][1], v[2][2],
                                 v[3][1], v[3][2]>>>>,
                    <<"fill", <<palette.baseHue + (ci * 7), palette.ink>>>>,
                    <<"stroke", <<minDim>>>> >>)
  /\ ci' = ci + 1
  /\ pc' = IF ci + 1 < centerPetals THEN "centerPetal" ELSE "centerDot"
  /\ UNCHANGED <<pageVars, canvas, args, palette, segments, layers, li, si, gi,
                 hdr, centerPetals, key, layerLog, rendered>>

\* lines 295-304
CenterDot ==
  /\ pc = "centerDot"
  /\ Observe("centerDot", <<a, <<>>>>, <<>>,
             << <<"centerDot", <<minDim, palette.gold>>>> >>)
  /\ pc' = "signature"
  /\ UNCHANGED <<pageVars, canvas, args, localVars, key, layerLog, rendered>>

\* faulty variant of Signature: the text is placed with a draw of the
\* generator
SignatureJittered ==
  /\ pc = "signature"
  /\ \E r \in {rngCalls(a, IF args.signature THEN 1 ELSE 0)} :
         Observe("signature", r, IF args.signature THEN <<"jitter">> ELSE <<>>,
                 IF args.signature
                 THEN << <<"fillText", args.word \o <<canvas.width, canvas.height>>>> >>
                 ELSE <<>>)
  /\ pc' = "return"
  /\ UNCHANGED <<pageVars, canvas, args, localVars, key, layerLog, rendered>>

\* lines 306-315
Signature ==
  /\ pc = "signature"
  /\ Observe("signature", <<a, <<>>>>, <<>>,
             IF args.signature
             THEN << <<"fillText", args.word \o <<canvas.width, canvas.height>>>> >>
             ELSE <<>>)
  /\ pc' = "return"
  /\ UNCHANGED <<pageVars, canvas, args, localVars, key, layerLog, rendered>>

\* what a completed call has done
Summary ==
  [seed |-> args.seed, a |-> a, draws |-> draws, digest |-> digest,
   palette |-> palette, segments |-> segments, layers |-> layers,
   centerPetals |-> centerPetals, layerLog |-> layerLog]

\* the return of drawMandala; the first completed run of a call is kept
Return ==
  /\ pc = "return"
  /\ rendered' = [rendered EXCEPT ![key] = IF @ = <<>> THEN <<Summary>> ELSE @]
  /\ block' = "return"
  /\ pc' = "idle"
  /\ UNCHANGED <<pageVars, canvas, args, a, localVars, key, draws, lastDraws,
                 lastOps, digest, layerLog>>

Next ==
  \/ \E c \in Calls : CallDrawMandala(c)
  \/ drawMandala
  \/ makePalette
  \/ drawBackground
  \/ GrainDot
  \/ Sizing
  \/ LayerHeader
  \/ SegPetal
  \/ SegBand
  \/ SegRays
  \/ SegDots
  \/ SegTriangles
  \/ RosetteCount
  \/ CenterPetal
  \/ CenterDot
  \/ Signature
  \/ Return

Spec == Init /\ [][Next]_vars


---------------------------------------------------------------------------
(* properties of drawMandala, checked under Spec                           *)

Tags(ld) == Tuple([i \in 1..Len(ld) |-> ld[i][1]])

LastLayer == layerLog[Len(layerLog)]

SegBlocks == {"petal", "band", "rays", "dots", "triangles"}

FirstLayerStart == 4 + (3 * GrainDots) + 3

\* the values of the last block are the next outputs, in order, of a
\* generator created from the seed of the call
DrawsInSequence ==
  \A i \in 1..Len(lastDraws) :
    lastDraws[i][2] =
      rngValue(Advance(mulberry32(args.seed), (draws - Len(lastDraws)) + i))

\* C1: every call of drawMandala starts a fresh generator from its seed, each
\* block consumes the next outputs of that generator, and a call that
\* completes after the same call has completed before (whatever ran before
\* or in between) has made the same draws, painted the same operations
\* with the same arguments and chosen the same parameters.
C1_Deterministic ==
  /\ block = "enter" =>
       /\ a = <<0, args.seed[1], args.seed[2]>>
       /\ draws = 0
       /\ digest = [hash |-> 0, count |-> 0]
  /\ block \notin {"none", "call", "enter", "return"} => DrawsInSequence
  /\ (pc = "return" /\ rendered[key] # <<>>) => rendered[key][1] = Summary

\* a call returns for the second time after a call for another word returned
C1_Witness ==
  /\ pc = "return"
  /\ rendered[key] # <<>>
  /\ \E c \in Calls : c.word # key.word /\ rendered[c] # <<>>

\* C3: the draws of a render are consumed in one fixed order: 4 palette
\* draws, 3 per grain dot (x, y, alpha) for GrainDots dots, rotation,
\* segments, layers, then per layer 5 header draws (r1, stroke, fill, kind,
\* line width) before the draws of its segments, which all have the kind
\* the header chose.
C3_FixedDrawOrder ==
  /\ block = "enter" => draws = 0
  /\ block = "makePalette" =>
       /\ draws = 4
       /\ Tags(lastDraws) = <<"baseHue", "hue2", "hue3", "hue4">>
       /\ palette.baseHue = FloorMul(lastDraws[1][2], 360)
  /\ block = "background" => draws = 4 /\ lastDraws = <<>>
  /\ block = "grain" =>
       /\ gi \in 1..GrainDots
       /\ draws = 4 + (3 * gi)
       /\ Tags(lastDraws) = <<"x", "y", "alpha">>
  /\ block = "sizing" =>
       /\ gi = GrainDots
       /\ draws = FirstLayerStart
       /\ Tags(lastDraws) = <<"rotation", "segments", "layers">>
       /\ segments = SegmentsOf(lastDraws[2][2])
       /\ layers = LayersOf(lastDraws[3][2])
       /\ layerLog = <<>>
  /\ block = "layerHeader" =>
       /\ Tags(lastDraws) = <<"r1", "stroke", "fill", "kind", "lineWidth">>
       /\ draws = LastLayer.start + 5
       /\ Len(layerLog) = 1 => LastLayer.start = FirstLayerStart
       /\ LastLayer.counts = <<>>
       /\ si = 0
       /\ hdr.stroke = pick(lastDraws[2][2], InkCount)
       /\ hdr.fill = pick(lastDraws[3][2], InkCount)
       /\ hdr.kind = Kinds[pick(lastDraws[4][2], Len(Kinds)) + 1]
       /\ LastLayer.kind = hdr.kind
  /\ block \in SegBlocks =>
       /\ block = hdr.kind
       /\ block = LastLayer.kind
       /\ draws > LastLayer.start + 5
       /\ Len(layerLog) \in 1..layers
       /\ si \in 1..segments

\* the last segment of the last layer has been drawn
C3_Witness ==
  /\ block \in SegBlocks
  /\ Len(layerLog) = layers
  /\ si = segments
  /\ pc = "rosette"

Sized == pc \in {"layer", "segment", "rosette", "centerPetal", "centerDot",
                 "signature", "return"}

Rosetted == pc \in {"centerPetal", "centerDot", "signature", "return"}

ProbeHalves == {0, 1, 3640, 9362, 32767, 32768, 43690, 61895, 65534, 65535}

\* C4: once chosen, segments lies in 8..26, layers in 7..14 and centerPetals
\* in 10..30; the same holds for draw values over the whole range of rng().
C4_Ranges ==
  /\ Sized => segments \in 8..26 /\ layers \in 7..14
  /\ Rosetted => centerPetals \in 10..30
  /\ block \in {"sizing", "rosette"} =>
       \A h \in ProbeHalves : \A l \in ProbeHalves :
         /\ SegmentsOf(<<h, l>>) \in 8..26
         /\ LayersOf(<<h, l>>) \in 7..14
         /\ CenterPetalsOf(<<h, l>>) \in 10..30

C4_Witness ==
  /\ pc = "return"
  /\ centerPetals \in 10..30
  /\ segments \in 8..26
  /\ layers \in 7..14
  /\ draws > FirstLayerStart

\* what a render chose, apart from positions and sizes on the surface
Structure(s) ==
  [seed |-> s.seed, a |-> s.a, draws |-> s.draws, palette |-> s.palette,
   segments |-> s.segments, layers |-> s.layers,
   centerPetals |-> s.centerPetals, layerLog |-> s.layerLog]

\* C5: a render that completes has consumed as many draws and chosen the
\* same segments, layers, kinds, stroke and fill picks, ray and dot counts
\* and centerPetals as every completed render of the same word, whatever
\* the two surface sizes.
C5_SizeIndependent ==
  pc = "return" =>
    \A c \in Calls :
      (c.word = key.word /\ rendered[c] # <<>>) =>
        Structure(rendered[c][1]) = Structure(Summary)

\* a render returns after one of the same word on a surface of another size
C5_Witness ==
  /\ pc = "return"
  /\ \E c \in Calls :
       /\ c.word = key.word
       /\ rendered[c] # <<>>
       /\ fitCanvasToContainer(c.rectWidth2, c.dpr2).width # canvas.width

\* draws of one segment of a fixed-count kind, by the table of the
\* specification and by the code
TableDraws(kind) ==
  IF kind = "petal" THEN 2 ELSE IF kind = "band" THEN 1 ELSE 3

CodeDraws(kind) ==
  IF kind = "petal" THEN Len(PetalDraws)
  ELSE IF kind = "band" THEN Len(BandDraws)
  ELSE Len(TriangleDraws)

FixedBlocks == {"petal", "band", "triangles"}

\* C6 as claimed: a petal segment consumes 2 draws, a band segment 1, a
\* triangles segment 3, so that si segments of the layer have consumed
\* si times that many draws after the 5 header draws.
C6_TableCounts ==
  block \in FixedBlocks =>
    /\ Len(lastDraws) = TableDraws(block)
    /\ draws = LastLayer.start + 5 + (TableDraws(block) * si)

\* C6 as amended: a petal segment consumes 3 draws (width, curve, fill
\* alpha), a band segment 2 (span, fill alpha), a triangles segment 4
\* (width, tip, base, fill alpha); a layer of such a kind consumes segments
\* times that many draws after its 5 header draws.
C6_CodeCounts ==
  /\ block = "petal" => Tags(lastDraws) = <<"width", "curve", "fillAlpha">>
  /\ block = "band" => Tags(lastDraws) = <<"span", "fillAlpha">>
  /\ block = "triangles" =>
       Tags(lastDraws) = <<"width", "tip", "base", "fillAlpha">>
  /\ block \in FixedBlocks =>
       /\ Len(lastDraws) = CodeDraws(block)
       /\ draws = LastLayer.start + 5 + (CodeDraws(block) * si)
  /\ (block = "layerHeader" /\ Len(layerLog) > 1
        /\ layerLog[Len(layerLog) - 1].kind \in FixedBlocks) =>
       LastLayer.start = layerLog[Len(layerLog) - 1].start + 5
                         + (CodeDraws(layerLog[Len(layerLog) - 1].kind) * segments)

\* a triangles layer is complete, after a petal layer and a band layer
C6_Witness ==
  /\ block = "triangles"
  /\ si = segments
  /\ \E i \in 1..Len(layerLog) : layerLog[i].kind = "petal"
  /\ \E i \in 1..Len(layerLog) : layerLog[i].kind = "band"

\* the tuple-th purpose of the draws of an element, repeated n times
Repeats(ld, per, n) ==
  /\ Len(ld) = 1 + (Len(per) * n)
  /\ \A i \in 1..(Len(per) * n) : ld[i + 1][1] = per[((i - 1) % Len(per)) + 1]

\* C7: a rays segment draws rayCount in 2..7 and then, per ray, two radius
\* jitters and an alpha; a dots segment draws dotCount in 2..6 and then,
\* per dot, size, alpha and two colour picks; the divisor that spaces the
\* elements is count - 1 and is not zero.
C7_VariableCounts ==
  /\ block = "rays" =>
       LET n == LastLayer.counts[Len(LastLayer.counts)]
       IN  /\ n \in 2..7
           /\ n = RayCountOf(lastDraws[1][2])
           /\ lastDraws[1][1] = "rayCount"
           /\ Repeats(lastDraws, <<"rr0", "rr1", "alpha">>, n)
           /\ Len(lastOps) = 1 + n
           /\ \A ri \in 1..n :
                /\ lastOps[ri + 1][2][8] = ri - 1
                /\ lastOps[ri + 1][2][9] = n - 1
                /\ lastOps[ri + 1][2][9] # 0
                /\ lastOps[ri + 1][2][10] = lastDraws[3 * ri - 1][2][1]
                /\ lastOps[ri + 1][2][12] = lastDraws[3 * ri][2][1]
                /\ lastOps[ri + 1][2][14] = lastDraws[3 * ri + 1][2][1]
  /\ block = "dots" =>
       LET n == LastLayer.counts[Len(LastLayer.counts)]
       IN  /\ n \in 2..6
           /\ n = DotCountOf(lastDraws[1][2])
           /\ lastDraws[1][1] = "dotCount"
           /\ Repeats(lastDraws, <<"size", "alpha", "fillPick", "glowPick">>, n)
           /\ Len(lastOps) = 1 + n
           /\ \A di \in 1..n :
                /\ lastOps[di + 1][2][8] = di - 1
                /\ lastOps[di + 1][2][9] = n - 1
                /\ lastOps[di + 1][2][9] # 0
                /\ lastOps[di + 1][2][10] = lastDraws[4 * di - 2][2][1]
                /\ lastOps[di + 1][2][12] = lastDraws[4 * di - 1][2][1]
                /\ lastOps[di + 1][2][14] = pick(lastDraws[4 * di][2], InkCount)
                /\ lastOps[di + 1][2][15] = pick(lastDraws[4 * di + 1][2], InkCount)
  /\ block \in {"rays", "dots"} =>
       /\ Len(LastLayer.counts) = si
       /\ draws = LastLayer.start + 5 + si
                  + ((IF block = "rays" THEN 3 ELSE 4) * SumSeq(LastLayer.counts))

\* a segment of rays or dots is drawn in a render that has drawn both kinds
C7_Witness ==
  /\ block \in {"rays", "dots"}
  /\ \E i \in 1..Len(layerLog) : layerLog[i].kind = "rays" /\ layerLog[i].counts # <<>>
  /\ \E i \in 1..Len(layerLog) : layerLog[i].kind = "dots" /\ layerLog[i].counts # <<>>

\* draws of a completed layer, from what the log says it drew
LayerDraws(e) ==
  5 + (IF e.kind \in FixedBlocks THEN CodeDraws(e.kind) * segments
       ELSE Len(e.counts)
            + ((IF e.kind = "rays" THEN 3 ELSE 4) * SumSeq(e.counts)))

RosetteStart == LastLayer.start + LayerDraws(LastLayer)

\* C8 as claimed: the rosette consumes 1 draw for centerPetals and 2 per
\* petal (outer radius, width), 1 + 2*centerPetals in all; the center dot
\* and the signature consume none.
C8_TwoPerPetal ==
  /\ block = "rosette" => Len(lastDraws) = 1
  /\ block = "centerPetal" => Tags(lastDraws) = <<"r1", "width">>
  /\ block \in {"centerDot", "signature"} => lastDraws = <<>>
  /\ pc = "return" => draws = RosetteStart + 1 + (2 * centerPetals)

\* C8 as amended: the rosette consumes 1 draw for centerPetals and 3 per
\* petal (outer radius, width, and the curve draw inside drawPetal),
\* 1 + 3*centerPetals in all; the center dot and the signature consume
\* none, with the signature option set or not.
C8_ThreePerPetal ==
  /\ block = "rosette" =>
       /\ Tags(lastDraws) = <<"centerPetals">>
       /\ draws = RosetteStart + 1
       /\ centerPetals = CenterPetalsOf(lastDraws[1][2])
  /\ block = "centerPetal" =>
       /\ Tags(lastDraws) = <<"r1", "width", "curve">>
       /\ ci \in 1..centerPetals
       /\ draws = RosetteStart + 1 + (3 * ci)
  /\ block \in {"centerDot", "signature"} =>
       /\ lastDraws = <<>>
       /\ draws = RosetteStart + 1 + (3 * centerPetals)
       /\ a = Advance(mulberry32(args.seed), draws)
  /\ block = "signature" => Len(lastOps) = (IF args.signature THEN 1 ELSE 0)
  /\ pc = "return" => draws = RosetteStart + 1 + (3 * centerPetals)
  /\ pc = "return" =>
       \A c \in Calls :
         (c.word = key.word /\ rendered[c] # <<>>) => rendered[c][1].draws = draws

\* a render without signature returns after one of the same word with it
C8_Witness ==
  /\ pc = "return"
  /\ ~args.signature
  /\ \E c \in Calls : c.word = key.word /\ c.signature /\ rendered[c] # <<>>

\* C9 as claimed: the closure variable of the generator is a 32-bit
\* unsigned integer at all times, equal to (seed + draws * 0x6d2b79f5)
\* mod 2^32.
C9_State32Bit ==
  pc \notin {"idle", "enter"} =>
    /\ a[1] = 0
    /\ a = <<0, Advance(mulberry32(args.seed), draws)[2],
             Advance(mulberry32(args.seed), draws)[3]>>

---------------------------------------------------------------------------
(* the page: handlers registered by main()                                 *)

\* values the user can leave in the input box
LotusTyped == <<32, 76, 111, 116, 117, 115, 32, 120>>     \* " Lotus x"

RawInputs == { <<>>, <<32, 9>>, LotusTyped, Harmony }

\* <<rect.width, devicePixelRatio>> after a resize, in half units
Resizes == { <<801, 2>>, <<2001, 3>>, <<601, 4>> }

MaxTimers == 3

\* faulty variant of clearTimeout: the pending timeout is not cancelled
clearTimeoutNothing(id) == timers

\* window.clearTimeout(id): the pending timeouts that remain
clearTimeout(id) == {t \in timers : t.id # id}

\* resizeTimer = window.setTimeout(cb, ms), after clearTimeout(resizeTimer)
DebounceWith(cb) ==
  /\ nextTimerId <= MaxTimers
  /\ timers' = clearTimeout(resizeTimer) \cup {[id |-> nextTimerId, cb |-> cb]}
  /\ resizeTimer' = nextTimerId
  /\ nextTimerId' = nextTimerId + 1

\* faulty variant of renderFromInput: the word is not tested
renderFromInputUnguarded(v) ==
  \E word \in {sanitizeWord(v)} :
  \E seed \in {computeSeed(word)} :
  \E fit \in {fitCanvasToContainer(rectWidth2, dpr2)} :
    /\ called' = TRUE
    /\ canvas' = fit
    /\ painted' = <<[word |-> word, seed |-> seed, width |-> fit.width,
                     height |-> fit.height, signature |-> TRUE]>>
    /\ seedLabel' = <<seed>>

\* renderFromInput() with input.value = v.  drawMandala runs to completion
\* inside the handler; its effect on the canvas is kept as its arguments.
renderFromInput(v) ==
  \E word \in {sanitizeWord(v)} :
    IF word = <<>>
    THEN /\ called' = FALSE
         /\ UNCHANGED <<canvas, painted, seedLabel>>
    ELSE \E seed \in {computeSeed(word)} :
         \E fit \in {fitCanvasToContainer(rectWidth2, dpr2)} :
           /\ called' = TRUE
           /\ canvas' = fit
           /\ painted' = <<[word |-> word, seed |-> seed, width |-> fit.width,
                            height |-> fit.height, signature |-> TRUE]>>
           /\ seedLabel' = <<seed>>

machineVars == <<pc, args, a, localVars, obsVars>>

\* lines 373-374: the default word is rendered
MainRender ==
  /\ phase = "loading"
  /\ phase' = "ready"
  /\ inputValue' = Harmony
  /\ renderFromInput(Harmony)
  /\ UNCHANGED <<rectWidth2, dpr2, timers, resizeTimer, nextTimerId,
                 download, machineVars>>

\* the window is resized to rs and the resize listener runs
OnResize(rs) ==
  /\ phase = "ready"
  /\ rectWidth2' = rs[1]
  /\ dpr2' = rs[2]
  /\ DebounceWith("resize")
  /\ called' = FALSE
  /\ UNCHANGED <<phase, inputValue, canvas, painted, seedLabel, download, machineVars>>

\* the form is submitted
OnSubmit ==
  /\ phase = "ready"
  /\ inputValue' = sanitizeWord(inputValue)
  /\ renderFromInput(sanitizeWord(inputValue))
  /\ UNCHANGED <<phase, rectWidth2, dpr2, timers, resizeTimer, nextTimerId,
                 download, machineVars>>

\* the user edits the box to v and the input listener runs
OnInput(v) ==
  /\ phase = "ready"
  /\ inputValue' = v
  /\ DebounceWith("input")
  /\ called' = FALSE
  /\ UNCHANGED <<phase, rectWidth2, dpr2, canvas, painted, seedLabel, download,
                 machineVars>>

SafeChar(c) ==
  \/ c >= 97 /\ c <= 122
  \/ c >= 65 /\ c <= 90
  \/ c >= 48 /\ c <= 57
  \/ c = 95
  \/ c = 45

\* word.replace(/[^a-z0-9_-]+/gi, "_")
RECURSIVE SafeName(_, _)
SafeName(w, inRun) ==
  IF w = <<>> THEN <<>>
  ELSE IF SafeChar(Head(w)) THEN <<Head(w)>> \o SafeName(Tail(w), FALSE)
  ELSE IF inRun THEN SafeName(Tail(w), TRUE)
  ELSE <<95>> \o SafeName(Tail(w), TRUE)

MandalaName == <<109, 97, 110, 100, 97, 108, 97>>

OnDownloadClick ==
  /\ phase = "ready"
  /\ LET word == sanitizeWord(inputValue)
         safeName == SafeName(word, FALSE)
     IN  IF word = <<>>
         THEN UNCHANGED download
         ELSE download' = <<[name |-> IF safeName = <<>> THEN MandalaName ELSE safeName,
                             image |-> painted]>>
  /\ called' = FALSE
  /\ UNCHANGED <<phase, inputValue, rectWidth2, dpr2, timers, resizeTimer,
                 nextTimerId, canvas, painted, seedLabel, machineVars>>

\* a pending timeout expires and its callback runs
TimerFires(t) ==
  /\ t \in timers
  /\ timers' = timers \ {t}
  /\ IF t.cb = "resize"
     THEN renderFromInput(inputValue)
     ELSE IF sanitizeWord(inputValue) # <<>>
          THEN renderFromInput(inputValue)
          ELSE called' = FALSE /\ UNCHANGED <<canvas, painted, seedLabel>>
  /\ UNCHANGED <<phase, inputValue, rectWidth2, dpr2, resizeTimer, nextTimerId,
                 download, machineVars>>

Expire == \E t \in timers : TimerFires(t)

UINext ==
  \/ MainRender
  \/ \E rs \in Resizes : OnResize(rs)
  \/ OnSubmit
  \/ \E v \in RawInputs : OnInput(v)
  \/ OnDownloadClick
  \/ Expire

\* a pending timeout expires once nothing cancels it; main() runs to its end
UISpec == Init /\ [][UINext]_vars /\ WF_vars(Expire) /\ WF_vars(MainRender)

---------------------------------------------------------------------------
(* properties of the page, checked under UISpec                            *)

\* C2: whenever a handler has called drawMandala the word it passed is the
\* sanitized input value and is not empty; a step that leaves the input
\* value empty after sanitizing calls nothing and leaves the canvas, what
\* is painted on it and the seed label as they were.
C2_NoRenderOfEmptyWord ==
  /\ [](called =>
          /\ painted # <<>>
          /\ painted[1].word # <<>>
          /\ painted[1].word = sanitizeWord(inputValue)
          /\ painted[1].seed = computeSeed(painted[1].word)
          /\ seedLabel = <<painted[1].seed>>)
  /\ [][sanitizeWord(inputValue') = <<>> =>
          (~called' /\ UNCHANGED <<canvas, painted, seedLabel>>)]_vars

\* the box holds only white space, its timeout has expired, and the canvas
\* still shows the default word
C2_Witness ==
  /\ inputValue = <<32, 9>>
  /\ timers = {}
  /\ nextTimerId > 1
  /\ ~called
  /\ painted # <<>>
  /\ painted[1].word = Harmony

\* the canvas and the seed label are those of the sanitized input value
\* (the seed painted is the seed of the word painted, by the first
\* conjunct of C10_SharedDebounce)
Current ==
  sanitizeWord(inputValue) # <<>> =>
    /\ painted # <<>>
    /\ painted[1].word = sanitizeWord(inputValue)
    /\ seedLabel = <<painted[1].seed>>

\* C10: at most one timeout is pending, it is the one resizeTimer names,
\* and an input or resize event leaves only its own timeout pending; in
\* every behaviour, from some point on, the canvas and the seed label are
\* those of the input value whenever that value is not empty after
\* sanitizing.
C10_SharedDebounce ==
  /\ [](/\ Cardinality(timers) <= 1
        /\ \A t \in timers : t.id = resizeTimer
        /\ painted # <<>> => painted[1].seed = computeSeed(painted[1].word))
  /\ [][resizeTimer' # resizeTimer =>
          (\E t \in timers' : timers' = {t} /\ t.id = resizeTimer' /\ t \notin timers)]_vars
  /\ <>[]Current

\* a timeout set after another one has expired and rendered the typed word
C10_Witness ==
  /\ inputValue = LotusTyped
  /\ timers = {}
  /\ nextTimerId > 2
  /\ called
  /\ painted[1].word = sanitizeWord(LotusTyped)

=============================================================================
